---- MODULE Spec2Model ----
(***************************************************************************)
(* Model of mdlkncsn.py: the SKUMapper class (load_mapping,                *)
(* identify_and_map_sku, handle_combo_products, process_sales_data) and    *)
(* the WMSApp event handlers that drive it.                                *)
(*                                                                         *)
(* A Python value is a record [t, v]: t is its type ("str", "int", "nan",  *)
(* "none") and v its characters, a sequence of one-character strings.      *)
(* A DataFrame is a record [cols, rows]: cols the column names in order,   *)
(* rows a sequence of functions from column name to value.                 *)
(***************************************************************************)
EXTENDS Integers, Sequences, FiniteSets, TLC

\* ---------------------------------------------------------------- bounds
\* Largest number of rows of a sales table.
MaxRows == 2

\* ---------------------------------------------------------------- values
StrVal(chars) == [t |-> "str", v |-> chars]
IntVal(digits) == [t |-> "int", v |-> digits]
NaN == [t |-> "nan", v |-> <<>>]
None == [t |-> "none", v |-> <<>>]

\* pd.isna on a scalar: NaN and None are both missing.
isna(x) == x.t \in {"nan", "none"}

\* str(x): the text of a value; an int becomes its digits.
Text(x) == x.v

\* The upper-case form of each lower-case letter.
UpperOf ==
  [a |-> "A", b |-> "B", c |-> "C", d |-> "D", e |-> "E", f |-> "F",
   g |-> "G", h |-> "H", i |-> "I", j |-> "J", k |-> "K", l |-> "L",
   m |-> "M", n |-> "N", o |-> "O", p |-> "P", q |-> "Q", r |-> "R",
   s |-> "S", t |-> "T", u |-> "U", v |-> "V", w |-> "W", x |-> "X",
   y |-> "Y", z |-> "Z"]
Whitespace == {" ", "\t"}

UpperChar(c) == IF c \in DOMAIN UpperOf THEN UpperOf[c] ELSE c

\* str.upper()
Upper(s) == [i \in 1..Len(s) |-> UpperChar(s[i])]

RECURSIVE LStrip(_)
LStrip(s) ==
  IF s # <<>> /\ s[1] \in Whitespace THEN LStrip(Tail(s)) ELSE s

RECURSIVE RStrip(_)
RStrip(s) ==
  IF s # <<>> /\ s[Len(s)] \in Whitespace
  THEN RStrip(SubSeq(s, 1, Len(s) - 1)) ELSE s

\* str.strip()
Strip(s) == RStrip(LStrip(s))

\* str.startswith(p)
StartsWith(s, p) == Len(s) >= Len(p) /\ SubSeq(s, 1, Len(p)) = p

\* The default combo_prefix argument of handle_combo_products.
COMBO_PREFIX == <<"C","O","M","B","O","_">>

\* ------------------------------------------------------------ DataFrames
NoDf == [none |-> TRUE]
HasColumn(df, c) == \E i \in 1..Len(df.cols) : df.cols[i] = c
Columns(df) == {df.cols[i] : i \in 1..Len(df.cols)}

\* df[c] = values followed by a dropna() on column c.
AssignColumnDropNa(df, c, values) ==
  LET keep == {i \in 1..Len(df.rows) : ~ isna(values[i])}
      nth(n) == CHOOSE i \in keep : Cardinality({j \in keep : j < i}) = n - 1
  IN [cols |-> IF HasColumn(df, c) THEN df.cols ELSE Append(df.cols, c),
      rows |-> [n \in 1..Cardinality(keep) |->
                 [k \in Columns(df) \cup {c} |->
                    IF k = c THEN values[nth(n)] ELSE df.rows[nth(n)][k]]]]

\* df[c] = values, one value per row; a new column goes last.
AssignColumn(df, c, values) ==
  [cols |-> IF HasColumn(df, c) THEN df.cols ELSE Append(df.cols, c),
   rows |-> [i \in 1..Len(df.rows) |->
              [k \in Columns(df) \cup {c} |->
                 IF k = c THEN values[i] ELSE df.rows[i][k]]]]

\* ------------------------------------------------------------- SKUMapper
EmptyMap == [k \in {} |-> k]

\* mapping_df.set_index('SKU')['MSKU'].to_dict(): a later row overwrites
\* an earlier row with the same SKU.
RECURSIVE to_dict(_)
to_dict(rows) ==
  IF rows = <<>> THEN EmptyMap
  ELSE LET prev == to_dict(SubSeq(rows, 1, Len(rows) - 1))
           last == rows[Len(rows)]
       IN [k \in DOMAIN prev \cup {last.SKU} |->
             IF k = last.SKU THEN last.MSKU ELSE prev[k]]

\* load_mapping that updates the old map with the new rows.
load_mapping_update(M, file) ==
  IF file.kind \in {"nopath", "unparsable"}
  THEN [err |-> "ValueError", map |-> M]
  ELSE IF file.kind = "notfound"
  THEN [err |-> "FileNotFoundError", map |-> M]
  ELSE IF ~ HasColumn(file, "SKU") \/ ~ HasColumn(file, "MSKU")
  THEN [err |-> "ValueError", map |-> M]
  ELSE LET new == to_dict(file.rows)
       IN [err |-> "none",
           map |-> [k \in DOMAIN M \cup DOMAIN new |->
                      IF k \in DOMAIN new THEN new[k] ELSE M[k]]]

\* load_mapping(file_path) on a mapper whose map is M: the error raised
\* ("none" when it returns True) and the map afterwards.
load_mapping(M, file) ==
  IF file.kind = "nopath"
  THEN [err |-> "ValueError", map |-> M]
  ELSE IF file.kind = "notfound"
  THEN [err |-> "FileNotFoundError", map |-> M]
  ELSE IF file.kind = "unparsable"
  THEN [err |-> "ValueError", map |-> M]
  ELSE IF ~ HasColumn(file, "SKU") \/ ~ HasColumn(file, "MSKU")
  THEN [err |-> "ValueError", map |-> M]
  ELSE [err |-> "none", map |-> to_dict(file.rows)]

\* clean_sku without strip() and upper().
clean_sku_raw(sku_value) == StrVal(Text(sku_value))

\* clean_sku = str(sku_value).strip().upper()
clean_sku(sku_value) == StrVal(Upper(Strip(Text(sku_value))))

\* identify_and_map_sku returning the cleaned SKU on a miss.
identify_return_clean(M, sku_value) ==
  IF isna(sku_value) THEN None
  ELSE IF clean_sku(sku_value) \in DOMAIN M
       THEN M[clean_sku(sku_value)]
       ELSE clean_sku(sku_value)

identify_and_map_sku(M, sku_value) ==
  IF isna(sku_value) THEN None
  ELSE IF clean_sku(sku_value) \in DOMAIN M
       THEN M[clean_sku(sku_value)]
       ELSE sku_value

\* _process_combo comparing the prefix without upper().
process_combo_case_sensitive(sku, combo_prefix) ==
  IF isna(sku) THEN sku
  ELSE IF StartsWith(Strip(Text(sku)), combo_prefix)
       THEN StrVal(combo_prefix \o <<"M","S","K","U">>)
       ELSE sku

\* _process_combo putting the prefix in front of the cleaned SKU.
process_combo_prepend(sku, combo_prefix) ==
  IF isna(sku) THEN sku
  ELSE IF StartsWith(Upper(Strip(Text(sku))), combo_prefix)
       THEN StrVal(combo_prefix \o Upper(Strip(Text(sku))))
       ELSE sku

\* _process_combo(sku), the closure inside handle_combo_products.
process_combo(sku, combo_prefix) ==
  IF isna(sku) THEN sku
  ELSE IF StartsWith(Upper(Strip(Text(sku))), combo_prefix)
       THEN StrVal(combo_prefix \o <<"M","S","K","U">>)
       ELSE sku

handle_combo_products(df, sku_column, combo_prefix) ==
  IF ~ HasColumn(df, sku_column) THEN df
  ELSE AssignColumn(df, sku_column,
                    [i \in 1..Len(df.rows) |->
                       process_combo(df.rows[i][sku_column], combo_prefix)])

\* df[msku_column] = df[sku_column].apply(self.identify_and_map_sku)
apply_mapping(M, df) ==
  AssignColumn(df, "MSKU",
               [i \in 1..Len(df.rows) |->
                  identify_and_map_sku(M, df.rows[i]["SKU"])])

\* process_sales_data testing for an empty map after the first pass.
process_sales_data_late_check(M, pd, df) ==
  IF ~ HasColumn(df, "SKU")
  THEN [err |-> "ValueError", df |-> df, processed_data |-> pd]
  ELSE IF DOMAIN M = {}
  THEN [err |-> "ValueError", df |-> apply_mapping(M, df),
        processed_data |-> pd]
  ELSE LET pass1 == apply_mapping(M, df)
           pass2 == handle_combo_products(pass1, "SKU", COMBO_PREFIX)
           pass3 == apply_mapping(M, pass2)
       IN [err |-> "none", df |-> pass3, processed_data |-> pass3]

\* process_sales_data without the second apply of the mapping.
process_sales_data_two_pass(M, pd, df) ==
  IF DOMAIN M = {}
  THEN [err |-> "ValueError", df |-> df, processed_data |-> pd]
  ELSE IF ~ HasColumn(df, "SKU")
  THEN [err |-> "ValueError", df |-> df, processed_data |-> pd]
  ELSE LET pass1 == apply_mapping(M, df)
           pass2 == handle_combo_products(pass1, "SKU", COMBO_PREFIX)
       IN [err |-> "none", df |-> pass2, processed_data |-> pass2]

\* process_sales_data(df) on a mapper with map M and processed_data pd:
\* the error raised ("none" when it returns), the DataFrame object df as
\* the call leaves it (it is written in place), and processed_data.
process_sales_data(M, pd, df) ==
  IF DOMAIN M = {}
  THEN [err |-> "ValueError", df |-> df, processed_data |-> pd]
  ELSE IF ~ HasColumn(df, "SKU")
  THEN [err |-> "ValueError", df |-> df, processed_data |-> pd]
  ELSE LET pass1 == apply_mapping(M, df)
           pass2 == handle_combo_products(pass1, "SKU", COMBO_PREFIX)
           pass3 == apply_mapping(M, pass2)
       IN [err |-> "none", df |-> pass3, processed_data |-> pass3]

\* ----------------------------------------------------------------- WMSApp
\* _check_enable_process_button: the state it gives the Process button.
check_enable_process_button(M, sales_df) ==
  IF DOMAIN M # {} /\ sales_df # NoDf THEN "normal" ELSE "disabled"

\* The DataFrame itself instead of a copy.
df_alias(df) == [alias |-> TRUE, df |-> df]

\* self.sales_data_df.copy(): a new object, not an alias of the original.
df_copy(df) == [alias |-> FALSE, df |-> df]

\* ----------------------------------------------------------------- inputs
ABC123 == StrVal(<<"A","B","C","1","2","3">>)
XYZ999 == StrVal(<<"X","Y","Z","9","9","9">>)
abc123_padded == StrVal(<<" ","a","b","c","1","2","3"," ">>)
unknown1 == StrVal(<<"u","n","k","n","o","w","n","1">>)
combo_special ==
  StrVal(<<"c","o","m","b","o","_","s","p","e","c","i","a","l">>)
combo_padded == StrVal(<<"\t","C","o","m","b","o","_","2"," ">>)
COMBO_MSKU == StrVal(<<"C","O","M","B","O","_","M","S","K","U">>)
blank == StrVal(<<" ">>)
twelve == IntVal(<<"1","2">>)
twelve_text == StrVal(<<"1","2">>)
M_1 == StrVal(<<"M","-","1">>)
M_2 == StrVal(<<"M","-","2">>)
M_3 == StrVal(<<"M","-","3">>)

\* Raw SKU values identify_and_map_sku is called with.
SkuValues ==
  {NaN, None, ABC123, XYZ999, abc123_padded, unknown1, combo_special, combo_padded,
   COMBO_MSKU, twelve, twelve_text, blank}

\* Rows of a sales file: a SKU cell and one other column.
SalesRows ==
  {[SKU |-> NaN, Qty |-> IntVal(<<"1">>)],
   [SKU |-> abc123_padded, Qty |-> NaN],
   [SKU |-> combo_special, Qty |-> IntVal(<<"4">>)]}

SkuTables ==
  {[cols |-> <<"SKU", "Qty">>, rows |-> r] :
     r \in UNION {[1..n -> SalesRows] : n \in 0..MaxRows}}

\* Sales tables without a SKU column.
NoSkuTables ==
  {[cols |-> <<"Qty">>, rows |-> [i \in 1..n |-> [Qty |-> IntVal(<<"1">>)]]] :
     n \in 0..MaxRows}

SalesTables == SkuTables \cup NoSkuTables

MappingTable(rows) ==
  [kind |-> "csv", cols |-> <<"SKU", "MSKU">>, rows |-> rows]

\* Mapping files: readable ones (well formed, or lacking a column) and the
\* ways a path can fail to yield a table.
MappingFiles ==
  {MappingTable(<<[SKU |-> ABC123, MSKU |-> M_1],
                  [SKU |-> XYZ999, MSKU |-> M_2]>>),
   MappingTable(<<[SKU |-> COMBO_MSKU, MSKU |-> M_3],
                  [SKU |-> XYZ999, MSKU |-> M_2]>>),
   MappingTable(<<[SKU |-> abc123_padded, MSKU |-> M_3],
                  [SKU |-> ABC123, MSKU |-> M_1],
                  [SKU |-> unknown1, MSKU |-> M_1],
                  [SKU |-> twelve, MSKU |-> M_3],
                  [SKU |-> ABC123, MSKU |-> M_2]>>),
   MappingTable(<<[SKU |-> ABC123, MSKU |-> NaN]>>),
   MappingTable(<<>>),
   [kind |-> "csv", cols |-> <<"SKU">>, rows |-> <<[SKU |-> ABC123]>>],
   [kind |-> "csv", cols |-> <<"MSKU">>, rows |-> <<[MSKU |-> M_1]>>],
   [kind |-> "nopath", cols |-> <<>>, rows |-> <<>>],
   [kind |-> "notfound", cols |-> <<>>, rows |-> <<>>],
   [kind |-> "unparsable", cols |-> <<>>, rows |-> <<>>]}

\* What the sales file dialog can hand to load_sales_file.
SalesFiles ==
  {[kind |-> "cancel", table |-> NoDf],
   [kind |-> "unsupported", table |-> NoDf],
   [kind |-> "unreadable", table |-> NoDf],
   [kind |-> "csv",
    table |-> [cols |-> <<"SKU", "Qty">>,
               rows |-> <<[SKU |-> combo_special, Qty |-> IntVal(<<"4">>)],
                          [SKU |-> abc123_padded, Qty |-> IntVal(<<"2">>)],
                          [SKU |-> NaN, Qty |-> IntVal(<<"1">>)]>>]],
   [kind |-> "excel",
    table |-> [cols |-> <<"SKU", "Qty">>,
               rows |-> <<[SKU |-> unknown1, Qty |-> NaN]>>]],
   [kind |-> "csv",
    table |-> [cols |-> <<"Qty">>, rows |-> <<[Qty |-> IntVal(<<"1">>)]>>]]}

\* Where asksaveasfilename can point save_processed_data.
SavePaths == {"cancel", "csv", "xlsx", "other"}

\* ------------------------------------------------------------------ state
VARIABLES
  sku_to_msku_map,    \* SKUMapper.sku_to_msku_map
  processed_data,     \* SKUMapper.processed_data
  sales_data_df,      \* WMSApp.sales_data_df
  processed_data_df,  \* WMSApp.processed_data_df
  process_button,     \* state of WMSApp.process_button
  save_button,        \* state of WMSApp.save_button
  loaded,             \* history: the mapping file of the last successful load
  call                \* history: the last call, its arguments and outcome

vars == <<sku_to_msku_map, processed_data, sales_data_df, processed_data_df,
          process_button, save_button, loaded, call>>

mapper_vars == <<sku_to_msku_map, processed_data>>
app_vars == <<sales_data_df, processed_data_df, process_button, save_button>>

\* SKUMapper.__init__ and WMSApp.__init__
Init ==
  /\ sku_to_msku_map = EmptyMap
  /\ processed_data = NoDf
  /\ sales_data_df = NoDf
  /\ processed_data_df = NoDf
  /\ process_button = "disabled"
  /\ save_button = "disabled"
  /\ loaded = [none |-> TRUE]
  /\ call = [op |-> "init"]

\* ------------------------------------------------- calls on the SKUMapper
LoadMapping(file) ==
  LET r == load_mapping(sku_to_msku_map, file)
  IN /\ sku_to_msku_map' = r.map
     /\ loaded' = IF r.err = "none" THEN file ELSE loaded
     /\ call' = [op |-> "load_mapping", file |-> file, err |-> r.err]
     /\ UNCHANGED <<processed_data, app_vars>>

IdentifyAndMapSku(sku_value) ==
  /\ call' = [op |-> "identify_and_map_sku", sku |-> sku_value,
              key |-> IF isna(sku_value) THEN None
                      ELSE clean_sku(sku_value),
              M |-> sku_to_msku_map,
              ret |-> identify_and_map_sku(sku_to_msku_map, sku_value)]
  /\ UNCHANGED <<mapper_vars, app_vars, loaded>>

ProcessCall(df, own) ==
  LET r == process_sales_data(sku_to_msku_map, processed_data, df)
  IN /\ processed_data' = r.processed_data
     /\ call' = [op |-> "process_sales_data", df |-> df, own |-> own,
                 err |-> r.err, df_after |-> r.df]
     /\ UNCHANGED <<sku_to_msku_map, app_vars, loaded>>

\* process_sales_data on a freshly loaded table.
ProcessSalesData(df) == ProcessCall(df, FALSE)

\* process_sales_data on the table the previous call returned.
ProcessAgain ==
  /\ call.op = "process_sales_data"
  /\ call.err = "none"
  /\ ProcessCall(processed_data, TRUE)

\* ------------------------------------------------------ events of the GUI
\* load_mapping_file: an empty path is a cancelled dialog.
LoadMappingFile(file) ==
  IF file.kind = "nopath"
  THEN /\ call' = [op |-> "load_mapping_file", file |-> file,
                   err |-> "cancelled"]
       /\ UNCHANGED <<mapper_vars, app_vars, loaded>>
  ELSE LET r == load_mapping(sku_to_msku_map, file)
       IN /\ sku_to_msku_map' = r.map
          /\ loaded' = IF r.err = "none" THEN file ELSE loaded
          /\ process_button' =
               IF r.err = "none"
               THEN check_enable_process_button(r.map, sales_data_df)
               ELSE process_button
          /\ call' = [op |-> "load_mapping_file", file |-> file,
                      err |-> r.err]
          /\ UNCHANGED <<processed_data, sales_data_df, processed_data_df,
                         save_button>>

LoadSalesFile(file) ==
  IF file.kind \in {"csv", "excel"}
  THEN /\ sales_data_df' = file.table
       /\ process_button' =
            check_enable_process_button(sku_to_msku_map, file.table)
       /\ call' = [op |-> "load_sales_file", err |-> "none"]
       /\ UNCHANGED <<mapper_vars, processed_data_df, save_button, loaded>>
  ELSE /\ call' = [op |-> "load_sales_file",
                   err |-> IF file.kind = "cancel" THEN "cancelled"
                           ELSE "ValueError"]
       /\ UNCHANGED <<mapper_vars, app_vars, loaded>>

\* process_data, run by a click on the enabled Process button.
ProcessData ==
  /\ process_button = "normal"
  /\ IF sales_data_df = NoDf \/ DOMAIN sku_to_msku_map = {}
     THEN /\ call' = [op |-> "process_data", err |-> "warning"]
          /\ UNCHANGED <<mapper_vars, app_vars, loaded>>
     ELSE LET df_to_process == df_copy(sales_data_df)
              r == process_sales_data(sku_to_msku_map, processed_data,
                                      df_to_process.df)
          IN /\ processed_data' = r.processed_data
             /\ sales_data_df' =
                  IF df_to_process.alias THEN r.df ELSE sales_data_df
             /\ processed_data_df' =
                  IF r.err = "none" THEN r.df ELSE processed_data_df
             /\ save_button' =
                  IF r.err = "none" THEN "normal" ELSE save_button
             /\ call' = [op |-> "process_data", err |-> r.err]
             /\ UNCHANGED <<sku_to_msku_map, process_button, loaded>>

\* save_processed_data, run by a click on the enabled Save button.
SaveProcessedData(path) ==
  /\ save_button = "normal"
  /\ call' = [op |-> "save_processed_data",
              err |-> IF processed_data_df = NoDf THEN "warning"
                      ELSE IF path = "cancel" THEN "cancelled" ELSE "none",
              path |-> path]
  /\ UNCHANGED <<mapper_vars, app_vars, loaded>>

\* --------------------------------------------------------- specifications
\* The SKUMapper driven through load_mapping and process_sales_data.
Next ==
  \/ \E file \in MappingFiles : LoadMapping(file)
  \/ \E df \in SalesTables : ProcessSalesData(df)
  \/ ProcessAgain

Spec == Init /\ [][Next]_vars

\* The SKUMapper driven through load_mapping and identify_and_map_sku.
NextResolve ==
  \/ \E file \in MappingFiles : LoadMapping(file)
  \/ \E sku_value \in SkuValues : IdentifyAndMapSku(sku_value)

SpecResolve == Init /\ [][NextResolve]_vars

\* The application driven through its four buttons.
NextApp ==
  \/ \E file \in MappingFiles : LoadMappingFile(file)
  \/ \E file \in SalesFiles : LoadSalesFile(file)
  \/ ProcessData
  \/ \E path \in SavePaths : SaveProcessedData(path)

SpecApp == Init /\ [][NextApp]_vars

\* ------------------------------------------------------------- properties
IsProcessed == call.op = "process_sales_data" /\ call.err = "none"
Rows(df) == 1..Len(df.rows)

\* A SKU whose stripped, upper-cased text starts with the reserved prefix.
IsCombo(sku) ==
  ~ isna(sku) /\ StartsWith(Upper(Strip(Text(sku))), COMBO_PREFIX)

\* A missing value or an empty text.
IsEmpty(x) == isna(x) \/ Text(x) = <<>>

\* A text with no surrounding whitespace and no lower-case letter.
IsNormalised(k) ==
  /\ k.t = "str"
  /\ k.v # <<>> => k.v[1] \notin Whitespace /\ k.v[Len(k.v)] \notin Whitespace
  /\ \A i \in 1..Len(k.v) : k.v[i] \notin DOMAIN UpperOf

\* M holds exactly the SKUs of rows, each with the MSKU of its last row.
MapIsTableOf(M, rows) ==
  /\ DOMAIN M = {rows[i].SKU : i \in 1..Len(rows)}
  /\ \A i \in 1..Len(rows) :
       (\A j \in (i + 1)..Len(rows) : rows[j].SKU # rows[i].SKU)
         => M[rows[i].SKU] = rows[i].MSKU

LoadFails(file) ==
  \/ file.kind \in {"nopath", "notfound", "unparsable"}
  \/ ~ HasColumn(file, "SKU")
  \/ ~ HasColumn(file, "MSKU")

\* C1: for a non-null raw SKU s, identify_and_map_sku returns M[k] when
\* k = upper(strip(text(s))) is a key of M and the original s when it is
\* not; the call leaves M as it was.
C1_Resolve ==
  (call.op = "identify_and_map_sku" /\ ~ isna(call.sku)) =>
    LET k == StrVal(Upper(Strip(Text(call.sku))))
    IN /\ k \in DOMAIN call.M => call.ret = call.M[k]
       /\ k \notin DOMAIN call.M => call.ret = call.sku
       /\ sku_to_msku_map = call.M

\* A miss on a SKU whose cleaned form differs from it.
C1_Witness ==
  /\ call.op = "identify_and_map_sku"
  /\ call.sku = unknown1
  /\ DOMAIN call.M # {}
  /\ call.ret = unknown1
  /\ call.key # call.sku

\* C2: after process_sales_data every row has a non-null MSKU unless its
\* SKU was null or empty, in which case its MSKU is null or empty too.
C2_NonNullMsku ==
  IsProcessed =>
    \A i \in Rows(call.df) :
      IF IsEmpty(call.df.rows[i].SKU)
      THEN IsEmpty(call.df_after.rows[i].MSKU)
      ELSE ~ isna(call.df_after.rows[i].MSKU)

\* C3 as stated: a combo row ends with SKU and MSKU both "COMBO_MSKU",
\* whatever the mapping table.
C3_Original ==
  IsProcessed =>
    \A i \in Rows(call.df) :
      IsCombo(call.df.rows[i].SKU) =>
        /\ call.df_after.rows[i].SKU = COMBO_MSKU
        /\ call.df_after.rows[i].MSKU = COMBO_MSKU

\* C3: a combo row ends with SKU "COMBO_MSKU", and with MSKU "COMBO_MSKU"
\* unless the mapping table has the key "COMBO_MSKU", in which case MSKU
\* is the value mapped to that key.
C3_ComboPlaceholder ==
  IsProcessed =>
    \A i \in Rows(call.df) :
      IsCombo(call.df.rows[i].SKU) =>
        /\ call.df_after.rows[i].SKU = COMBO_MSKU
        /\ call.df_after.rows[i].MSKU =
             IF COMBO_MSKU \in DOMAIN sku_to_msku_map
             THEN sku_to_msku_map[COMBO_MSKU]
             ELSE COMBO_MSKU

\* A combo row processed under a map that has the key "COMBO_MSKU".
C3_Witness ==
  /\ IsProcessed
  /\ COMBO_MSKU \in DOMAIN sku_to_msku_map
  /\ \E i \in Rows(call.df) : call.df.rows[i].SKU = combo_special

\* C4: process_sales_data keeps the number and order of the rows and the
\* order of the columns, changes no column other than SKU and MSKU, and
\* leaves the SKU of every row that is not a combo row as it was.
C4_Frame ==
  IsProcessed =>
    /\ Len(call.df_after.rows) = Len(call.df.rows)
    /\ call.df_after.cols =
         IF HasColumn(call.df, "MSKU") THEN call.df.cols
         ELSE Append(call.df.cols, "MSKU")
    /\ \A i \in Rows(call.df) :
         /\ DOMAIN call.df_after.rows[i] = Columns(call.df) \cup {"MSKU"}
         /\ \A c \in Columns(call.df) \ {"SKU", "MSKU"} :
              call.df_after.rows[i][c] = call.df.rows[i][c]
         /\ ~ IsCombo(call.df.rows[i].SKU) =>
              call.df_after.rows[i].SKU = call.df.rows[i].SKU

\* Two rows with different cells, one of them null, the other a combo.
C4_Witness ==
  /\ IsProcessed
  /\ Len(call.df.rows) = 2
  /\ isna(call.df.rows[1].SKU)
  /\ call.df.rows[2].SKU = combo_special

\* C5: process_sales_data raises when the map is empty or the table has no
\* SKU column, and a call that raises leaves the table it was given and
\* processed_data as they were.
C5_AllOrNothing ==
  [][call'.op = "process_sales_data" =>
       /\ (DOMAIN sku_to_msku_map = {} \/ ~ HasColumn(call'.df, "SKU"))
            => call'.err = "ValueError"
       /\ call'.err # "none" =>
            /\ call'.df_after = call'.df
            /\ processed_data' = processed_data]_vars

\* A call that raised on an empty map after an earlier call had succeeded.
C5_Witness ==
  /\ call.op = "process_sales_data"
  /\ call.err = "ValueError"
  /\ DOMAIN sku_to_msku_map = {}
  /\ HasColumn(call.df, "SKU")
  /\ call.df.rows # <<>>
  /\ processed_data # NoDf

\* C6: the map is the table of the most recent successful load_mapping
\* (empty before any); a load that cannot read a table with both columns
\* raises and a load that raises changes nothing.
C6_LastLoadWins ==
  /\ IF loaded = [none |-> TRUE]
     THEN sku_to_msku_map = EmptyMap
     ELSE MapIsTableOf(sku_to_msku_map, loaded.rows)
  /\ call.op = "load_mapping" =>
       /\ LoadFails(call.file) <=> call.err # "none"
       /\ call.err = "none" => loaded = call.file

\* A failed load after a successful one.
C6_Witness ==
  /\ call.op = "load_mapping"
  /\ call.err # "none"
  /\ loaded # [none |-> TRUE]
  /\ DOMAIN sku_to_msku_map # {}

\* C7 as stated: processing the output of process_sales_data again gives a
\* different table when the table has a combo row.
C7_Original ==
  (IsProcessed /\ call.own
     /\ \E i \in Rows(call.df) : IsCombo(call.df.rows[i].SKU))
    => call.df_after # call.df

\* C7: processing the output of process_sales_data again, under the same
\* map, gives the same table, combo rows included.
C7_Idempotent ==
  (IsProcessed /\ call.own) => call.df_after = call.df

\* A second run over a table whose combo row the first run rewrote.
C7_Witness ==
  /\ IsProcessed
  /\ call.own
  /\ \E i \in Rows(call.df) : call.df.rows[i].SKU = COMBO_MSKU

\* C8: the table process_sales_data returns is the one obtained by
\* classifying each SKU and resolving the result once: MSKU is
\* resolve(classify(SKU)) and nothing else of the first pass remains.
C8_ClassifyThenResolve ==
  IsProcessed =>
    \A i \in Rows(call.df) :
      LET classified == process_combo(call.df.rows[i].SKU, COMBO_PREFIX)
      IN /\ call.df_after.rows[i].SKU = classified
         /\ call.df_after.rows[i].MSKU =
              identify_and_map_sku(sku_to_msku_map, classified)

\* A combo row whose first-pass MSKU differs from its final MSKU.
C8_Witness ==
  /\ IsProcessed
  /\ \E i \in Rows(call.df) :
       /\ IsCombo(call.df.rows[i].SKU)
       /\ identify_and_map_sku(sku_to_msku_map, call.df.rows[i].SKU)
            # call.df_after.rows[i].MSKU

\* C9: the keys of the map are the raw SKU cells of the loaded file, and a
\* lookup never hits a key that is not a stripped, upper-case text.
C9_RawKeys ==
  /\ loaded # [none |-> TRUE] =>
       DOMAIN sku_to_msku_map =
         {loaded.rows[i].SKU : i \in 1..Len(loaded.rows)}
  /\ (call.op = "identify_and_map_sku" /\ ~ isna(call.sku)
        /\ call.key \in DOMAIN call.M) => IsNormalised(call.key)

\* A lookup of a text that is itself a key of the map, and not returned.
C9_Witness ==
  /\ call.op = "identify_and_map_sku"
  /\ call.sku = abc123_padded
  /\ abc123_padded \in DOMAIN call.M
  /\ call.ret # call.M[abc123_padded]

\* C10: the Process button is enabled exactly when the map is not empty
\* and a sales table is loaded, the Save button only when a processed
\* table exists, and process_data leaves the loaded sales table as it was.
C10_Gui ==
  /\ [](/\ process_button = "normal" <=>
             (DOMAIN sku_to_msku_map # {} /\ sales_data_df # NoDf)
        /\ save_button = "normal" => processed_data_df # NoDf)
  /\ [][call'.op = "process_data" => sales_data_df' = sales_data_df]_vars

\* A combo row processed, the loaded table still holding its SKU.
C10_Witness ==
  /\ call.op = "process_data"
  /\ call.err = "none"
  /\ save_button = "normal"
  /\ \E i \in Rows(sales_data_df) : sales_data_df.rows[i].SKU = combo_special
  /\ \E i \in Rows(processed_data_df) :
       processed_data_df.rows[i].SKU = COMBO_MSKU

====
